---- MODULE Spec2Model ----
(***************************************************************************)
(* FspyVmdConverter (fspy2vmd): applying an fSpy calibration record to a   *)
(* perspective camera and exporting the camera as a VMD camera motion.     *)
(*                                                                         *)
(* Numbers.  A JavaScript number that reaches the binary writer as a       *)
(* float is a record [neg, mag, rad]: sign, magnitude, and whether the     *)
(* magnitude counts radians in units of pi/PI (rad = TRUE) or plain units  *)
(* (rad = FALSE).  The sign is kept apart from the magnitude because the   *)
(* code produces negative zero (-0 * 5, -euler.z) and float32 writes it    *)
(* with the sign bit set.  Matrix elements, frame indices, view angles and *)
(* curve bytes are integers.  Quotients (fov, aspect, near, far) are exact *)
(* fractions [num, den].                                                   *)
(***************************************************************************)
EXTENDS Integers, Sequences, FiniteSets, TLC

VARIABLES
    camera,            \* the PerspectiveCamera the converter holds
    fspyData,          \* this.fspyData: NullRef or the address of the held record
    converterOptions,  \* this.converterOptions
    heap,              \* the JavaScript objects: address -> object or Free
    callerRef,         \* the FspyData object the caller holds: one it built, or
                       \* the one getFspyData returned to it
    applyCalled,       \* history: applyFSpyToCamera has been called
    lastResult         \* the last call and its outcome

vars == <<camera, fspyData, converterOptions, heap, callerRef, applyCalled, lastResult>>

\* No error, no result.
None == "none"
\* The null reference (this.fspyData = null); addresses start at 1.
NullRef == 0
\* An optional value (an options field, a parameter): <<>> when undefined, <<v>> when given.
Undefined == <<>>
Some(v) == <<v>>
\* a ?? b
Coalesce(a, b) == IF a = Undefined THEN b ELSE a[1]
\* An array element of a transform: a number, or undefined (a hole or an
\* explicit undefined).
Number(n) == [t |-> "number", v |-> n]
UndefinedElem == [t |-> "undefined", v |-> 0]
Free == [kind |-> "free"]

(***************************************************************************)
(* Bounds of the model.                                                    *)
(***************************************************************************)
MaxFrames == 2
HeapSize == 12

(***************************************************************************)
(* Program constants.                                                      *)
(***************************************************************************)
DEGREES_PER_HALF_TURN == 180
MATRIX_SIZE == 4
MATRIX_ELEMENT_COUNT == 16
CAMERA_CURVE_START == 20
CAMERA_CURVE_END == 107
CAMERA_CURVE_PAIR_COUNT == 12
VMD_HEADER_SIZE == 30
VMD_MODEL_NAME_SIZE == 20
VMD_UINT32_SIZE == 4
VMD_CAMERA_FRAME_SIZE == 61
ASCII_MASK == 127
VMD_COUNT_FIELDS == 6
AXIS_INDEX_X == 0
AXIS_INDEX_Y == 1
AXIS_INDEX_Z == 2
DISTANCE_BASE_MULTIPLIER == 5
DEFAULT_FRAME_TIME == 0
DEFAULT_ORTHOGRAPHIC == 0
\* Math.PI, in the model's angle unit: an angle a stands for a * pi / PI rad.
PI == 24

FSPY_DATA_NOT_SET == "FSPY_DATA_NOT_SET"
INVALID_CAMERA_TRANSFORM_ROWS_SIZE == "INVALID_CAMERA_TRANSFORM_ROWS_SIZE"
INVALID_CAMERA_TRANSFORM_VALUE == "INVALID_CAMERA_TRANSFORM_VALUE"

\* "カメラ・照明" in Shift-JIS.
CAMERA_MODEL_NAME_SJIS == <<131, 74, 131, 129, 131, 137, 129, 69, 143, 198, 150, 190>>

\* The char codes of "Vocaloid Motion Data 0002".
VMD_SIGNATURE ==
    <<86, 111, 99, 97, 108, 111, 105, 100, 32,
      77, 111, 116, 105, 111, 110, 32,
      68, 97, 116, 97, 32,
      48, 48, 48, 50>>

(***************************************************************************)
(* Arithmetic helpers.                                                     *)
(***************************************************************************)
Abs(n) == IF n < 0 THEN -n ELSE n
Min(a, b) == IF a <= b THEN a ELSE b

RECURSIVE Pow2(_)
Pow2(n) == IF n = 0 THEN 1 ELSE 2 * Pow2(n - 1)

RECURSIVE Gcd(_, _)
Gcd(a, b) == IF b = 0 THEN a ELSE Gcd(b, a % b)

\* a / b as JavaScript computes it on exact inputs: a fraction in lowest
\* terms with a positive denominator; den = 0 is the non-finite result
\* (num 1: Infinity, num -1: -Infinity, num 0: NaN).
Div(a, b) ==
    IF b = 0
    THEN [num |-> IF a > 0 THEN 1 ELSE IF a < 0 THEN -1 ELSE 0, den |-> 0]
    ELSE LET g == Gcd(Abs(a), Abs(b))
             s == IF b < 0 THEN -1 ELSE 1
         IN  [num |-> s * (a \div g), den |-> Abs(b) \div g]

\* Math.round of a finite fraction: the nearest integer, halves rounded up.
MathRound(q) == (2 * q.num + q.den) \div (2 * q.den)

\* Math.sqrt on the perfect squares the model's positions produce.
Sqrt(n) == CHOOSE r \in 0..n : r * r = n

\* Floats as sign and magnitude.
IntNum(n) == [neg |-> n < 0, mag |-> Abs(n), rad |-> FALSE]
RadNum(a) == [neg |-> a < 0, mag |-> Abs(a), rad |-> TRUE]
NumNeg(x) == [x EXCEPT !.neg = ~x.neg]
NumMul(x, y) ==
    [neg |-> x.neg # y.neg, mag |-> x.mag * y.mag, rad |-> x.rad \/ y.rad]

(***************************************************************************)
(* DataView.setFloat32 / setUint32 / setUint8, little-endian.              *)
(***************************************************************************)
RECURSIVE Log2Floor(_)
Log2Floor(n) == IF n <= 1 THEN 0 ELSE 1 + Log2Floor(n \div 2)

\* The biased exponent and the 23-bit fraction of the float32 nearest to x.
\* Plain magnitudes below 2^24 are exact; of the angles, the quarter turn
\* and the half turn occur, whose float32 images are 0x3FC90FDB, 0x40490FDB.
Float32Exponent(x) ==
    IF x.mag = 0 THEN 0
    ELSE IF x.rad THEN (IF x.mag = PI THEN 128 ELSE 127)
    ELSE 127 + Log2Floor(x.mag)

Float32Fraction(x) ==
    IF x.mag = 0 THEN 0
    ELSE IF x.rad THEN 4788187
    ELSE LET e == Log2Floor(x.mag)
         IN  (x.mag - Pow2(e)) * Pow2(23 - e)

Float32LE(x) ==
    LET e == Float32Exponent(x)
        f == Float32Fraction(x)
    IN  << f % 256,
           (f \div 256) % 256,
           (e % 2) * 128 + (f \div 65536),
           (IF x.neg THEN 128 ELSE 0) + (e \div 2) >>

Uint32LE(v) ==
    << v % 256, (v \div 256) % 256, (v \div 65536) % 256, (v \div 16777216) % 256 >>

Uint8(v) == v % 256

(***************************************************************************)
(* writeCameraVmd.  The writer is the closure state of the method: the     *)
(* buffer, the write offset, and, for the layout properties, the log of    *)
(* the writes made, each the pair of its first and last byte (1-based).    *)
(* A write past the end of the buffer throws RangeError, which ends the    *)
(* loops and the method.                                                   *)
(***************************************************************************)
NewWriter(totalSize) ==
    [ buf     |-> [i \in 1..totalSize |-> 0],
      written |-> <<>>,
      offset  |-> 0,
      err     |-> None ]

\* uint8.set(bytes, offset) / view.setXxx(offset, ...), then offset += advance.
Put(w, bytes, advance) ==
    IF w.err # None THEN w
    ELSE IF w.offset + Len(bytes) > Len(w.buf) THEN [w EXCEPT !.err = "RangeError"]
    ELSE LET n == Len(w.buf)
             from == w.offset
             to == w.offset + Len(bytes)
         IN  [ w EXCEPT
                 !.buf = SubSeq(w.buf, 1, from) \o bytes \o SubSeq(w.buf, to + 1, n),
                 !.written = Append(w.written, <<from + 1, to>>),
                 !.offset = w.offset + advance ]

writeBytes(w, bytes, length) ==
    Put(w, [i \in 1..length |-> IF i <= Len(bytes) THEN bytes[i] ELSE 0], length)

writeAscii(w, str, length) ==
    Put(w, [i \in 1..length |->
              IF i <= Min(Len(str), length) THEN str[i] % (ASCII_MASK + 1) ELSE 0],
        length)

\* Mutant: the littleEndian flag left out, so the bytes go out big-endian.
writeUint32_BigEndian(w, value) ==
    Put(w, <<Uint32LE(value)[4], Uint32LE(value)[3], Uint32LE(value)[2], Uint32LE(value)[1]>>,
        VMD_UINT32_SIZE)

writeUint32(w, value) == Put(w, Uint32LE(value), VMD_UINT32_SIZE)

writeFloat32(w, value) == Put(w, Float32LE(value), VMD_UINT32_SIZE)

writeUint8(w, value) == Put(w, <<Uint8(value)>>, 1)

RECURSIVE WriteCurve(_, _, _)
WriteCurve(w, curve, i) ==
    IF w.err # None \/ i > Len(curve) THEN w
    ELSE WriteCurve(writeUint8(w, curve[i]), curve, i + 1)

\* Mutant: the view angle written before the curve.
WriteFrame_AngleBeforeCurve(w, frame) ==
    LET w1 == writeUint32(w, frame.frameTime)
        w2 == writeFloat32(w1, frame.distance)
        w3 == writeFloat32(w2, frame.position[AXIS_INDEX_X + 1])
        w4 == writeFloat32(w3, frame.position[AXIS_INDEX_Y + 1])
        w5 == writeFloat32(w4, frame.position[AXIS_INDEX_Z + 1])
        w6 == writeFloat32(w5, frame.rotation[AXIS_INDEX_X + 1])
        w7 == writeFloat32(w6, frame.rotation[AXIS_INDEX_Y + 1])
        w8 == writeFloat32(w7, frame.rotation[AXIS_INDEX_Z + 1])
        w9 == writeUint32(w8, frame.viewAngle)
        w10 == WriteCurve(w9, frame.curve, 1)
    IN  writeUint8(w10, frame.orthographic)

\* The body of the loop over cameraFrames.
WriteFrame(w, frame) ==
    LET w1 == writeUint32(w, frame.frameTime)
        w2 == writeFloat32(w1, frame.distance)
        w3 == writeFloat32(w2, frame.position[AXIS_INDEX_X + 1])
        w4 == writeFloat32(w3, frame.position[AXIS_INDEX_Y + 1])
        w5 == writeFloat32(w4, frame.position[AXIS_INDEX_Z + 1])
        w6 == writeFloat32(w5, frame.rotation[AXIS_INDEX_X + 1])
        w7 == writeFloat32(w6, frame.rotation[AXIS_INDEX_Y + 1])
        w8 == writeFloat32(w7, frame.rotation[AXIS_INDEX_Z + 1])
        w9 == WriteCurve(w8, frame.curve, 1)
        w10 == writeUint32(w9, frame.viewAngle)
    IN  writeUint8(w10, frame.orthographic)

RECURSIVE WriteFrames(_, _, _)
WriteFrames(w, cameraFrames, k) ==
    IF w.err # None \/ k > Len(cameraFrames) THEN w
    ELSE WriteFrames(WriteFrame(w, cameraFrames[k]), cameraFrames, k + 1)

\* Mutant: the size computed with 60 bytes a frame (the orthographic flag forgotten).
TotalSize_ShortFrame(cameraFrames) ==
    VMD_HEADER_SIZE + VMD_MODEL_NAME_SIZE + VMD_UINT32_SIZE * VMD_COUNT_FIELDS
        + Len(cameraFrames) * (VMD_CAMERA_FRAME_SIZE - 1)

TotalSize(cameraFrames) ==
    VMD_HEADER_SIZE + VMD_MODEL_NAME_SIZE + VMD_UINT32_SIZE * VMD_COUNT_FIELDS
        + Len(cameraFrames) * VMD_CAMERA_FRAME_SIZE

\* The final writer state; the method returns its buf.
writeCameraVmd(cameraFrames) ==
    LET w0 == NewWriter(TotalSize(cameraFrames))
        w1 == writeAscii(w0, VMD_SIGNATURE, VMD_HEADER_SIZE)
        w2 == writeBytes(w1, CAMERA_MODEL_NAME_SJIS, VMD_MODEL_NAME_SIZE)
        w3 == writeUint32(w2, 0)
        w4 == writeUint32(w3, 0)
        w5 == writeUint32(w4, Len(cameraFrames))
        w6 == WriteFrames(w5, cameraFrames, 1)
        w7 == writeUint32(w6, 0)
        w8 == writeUint32(w7, 0)
    IN  writeUint32(w8, 0)

RECURSIVE CurvePairs(_)
CurvePairs(n) ==
    IF n = 0 THEN <<>> ELSE CurvePairs(n - 1) \o <<CAMERA_CURVE_START, CAMERA_CURVE_END>>

createDefaultCameraCurve == CurvePairs(CAMERA_CURVE_PAIR_COUNT)

(***************************************************************************)
(* The heap.  An FspyData object and the two matrix objects it refers to   *)
(* are separate JavaScript objects, so that a copy can be told from an     *)
(* alias.  Of FspyData, the fields the converter reads are kept, and the   *)
(* view transform; the remaining fields are plain data copied alike.       *)
(***************************************************************************)
Addr == 1..HeapSize

FspyObject(vfov, width, height, ct, vt) ==
    [ kind |-> "FspyData", verticalFieldOfView |-> vfov, imageWidth |-> width,
      imageHeight |-> height, cameraTransform |-> ct, viewTransform |-> vt ]

MatrixObject(rows) == [kind |-> "FspyTransformMatrix", rows |-> rows]

IsFree(h, a) == h[a].kind = "free"

AllocOne(h) == CHOOSE a \in Addr : IsFree(h, a) /\ \A b \in Addr : IsFree(h, b) => a <= b

\* Garbage collection, compacting: what neither root reaches is gone, and the
\* live objects are renumbered in the order the roots reach them, so that a
\* state does not depend on the addresses its history happened to use.
Traversal(h, ref) ==
    IF ref = NullRef THEN <<>> ELSE <<ref, h[ref].cameraTransform, h[ref].viewTransform>>

RECURSIVE Dedup(_, _)
Dedup(s, acc) ==
    IF s = <<>> THEN acc
    ELSE Dedup(Tail(s), IF \E i \in DOMAIN acc : acc[i] = Head(s)
                        THEN acc ELSE Append(acc, Head(s)))

\* order: the live addresses, each once; an object moves to its index in order.
Compact(h, order, root1, root2) ==
    LET rank(a) == IF a = NullRef THEN NullRef
                   ELSE CHOOSE i \in DOMAIN order : order[i] = a
        move(o) == IF o.kind = "FspyData"
                   THEN [o EXCEPT !.cameraTransform = rank(o.cameraTransform),
                                  !.viewTransform = rank(o.viewTransform)]
                   ELSE o
    IN  [ heap |-> [n \in Addr |-> IF n <= Len(order) THEN move(h[order[n]]) ELSE Free],
          root1 |-> rank(root1),
          root2 |-> rank(root2) ]

Collect(h, root1, root2) ==
    Compact(h, Dedup(Traversal(h, root1) \o Traversal(h, root2), <<>>), root1, root2)

\* null, as a value.
NullValue == [null |-> TRUE]

\* The FspyData value behind a reference, as plain data.
Deref(h, ref) ==
    IF ref # NullRef
    THEN [ verticalFieldOfView |-> h[ref].verticalFieldOfView,
           imageWidth |-> h[ref].imageWidth,
           imageHeight |-> h[ref].imageHeight,
           cameraTransform |-> h[h[ref].cameraTransform].rows,
           viewTransform |-> h[h[ref].viewTransform].rows ]
    ELSE NullValue

\* Builds a fresh FspyData object from plain data: [heap, ref].
NewFspy(h, v) ==
    LET a1 == AllocOne(h)
        h1 == [h EXCEPT ![a1] = MatrixObject(v.cameraTransform)]
        a2 == AllocOne(h1)
        h2 == [h1 EXCEPT ![a2] = MatrixObject(v.viewTransform)]
        a3 == AllocOne(h2)
    IN  [ heap |-> [h2 EXCEPT ![a3] = FspyObject(v.verticalFieldOfView, v.imageWidth,
                                                  v.imageHeight, a1, a2)],
          ref |-> a3 ]

\* Mutant: a shallow copy ({ ...fspy }), which shares the nested matrices.
cloneFspyData_Shallow(h, ref) ==
    [heap |-> [h EXCEPT ![AllocOne(h)] = h[ref]], ref |-> AllocOne(h)]

\* cloneFspyData: a deep copy, [heap, ref].  structuredClone and the JSON
\* fallback agree on the data an fSpy file holds; the model follows
\* structuredClone, which also keeps an undefined array element.
cloneFspyData(h, ref) == NewFspy(h, Deref(h, ref))

(***************************************************************************)
(* matrixFromFSpyRows.                                                     *)
(***************************************************************************)
radToDeg(radian) == Div(radian * DEGREES_PER_HALF_TURN, PI)

\* rows[r]?.[c]: reading past the end of an array gives undefined.
Elem(rows, r, c) ==
    IF r \in DOMAIN rows /\ c \in DOMAIN rows[r] THEN rows[r][c] ELSE UndefinedElem

\* Mutant: the destination slot without the transposition.
SlotOf_RowMajor(rowIndex, colIndex) == rowIndex * MATRIX_SIZE + colIndex

\* The slot of arr that rows[rowIndex][colIndex] is stored in.
SlotOf(rowIndex, colIndex) == colIndex * MATRIX_SIZE + rowIndex

\* The double loop, at flat index idx = rowIndex * MATRIX_SIZE + colIndex.
\* arr is the array under construction: slot -> value.
RECURSIVE TransposeLoop(_, _, _)
TransposeLoop(rows, arr, idx) ==
    IF idx = MATRIX_ELEMENT_COUNT THEN [err |-> None, arr |-> arr]
    ELSE LET rowIndex == idx \div MATRIX_SIZE
             colIndex == idx % MATRIX_SIZE
             value == Elem(rows, rowIndex + 1, colIndex + 1)
         IN  IF value.t = "undefined"
             THEN [err |-> INVALID_CAMERA_TRANSFORM_VALUE, arr |-> arr]
             ELSE TransposeLoop(rows,
                                [arr EXCEPT ![SlotOf(rowIndex, colIndex)] = value],
                                idx + 1)

\* No Matrix4 was constructed.
NoMatrix == <<>>

\* new Matrix4().fromArray(arr): the 16 elements, column-major.
FromArray(arr) == [k \in 1..MATRIX_ELEMENT_COUNT |-> arr[k - 1].v]

\* Mutant: the values are looked at before the shape.
matrixFromFSpyRows_ValueFirst(rows) ==
    LET filled == TransposeLoop(rows,
                                [k \in 0..(MATRIX_ELEMENT_COUNT - 1) |-> UndefinedElem], 0)
    IN  IF filled.err # None
        THEN [err |-> filled.err, matrix |-> NoMatrix]
        ELSE IF Len(rows) # MATRIX_SIZE \/ \E r \in DOMAIN rows : Len(rows[r]) # MATRIX_SIZE
        THEN [err |-> INVALID_CAMERA_TRANSFORM_ROWS_SIZE, matrix |-> NoMatrix]
        ELSE [err |-> None, matrix |-> FromArray(filled.arr)]

\* Mutant: the shape check written with < in place of !==.
matrixFromFSpyRows_AtLeast(rows) ==
    IF Len(rows) < MATRIX_SIZE \/ \E r \in DOMAIN rows : Len(rows[r]) < MATRIX_SIZE
    THEN [err |-> INVALID_CAMERA_TRANSFORM_ROWS_SIZE, matrix |-> NoMatrix]
    ELSE LET filled == TransposeLoop(rows,
                                     [k \in 0..(MATRIX_ELEMENT_COUNT - 1) |-> UndefinedElem], 0)
         IN  IF filled.err # None
             THEN [err |-> filled.err, matrix |-> NoMatrix]
             ELSE [err |-> None, matrix |-> FromArray(filled.arr)]

\* [err, matrix]: matrix is the Matrix4 returned, or NoMatrix when the method
\* threw before constructing one.
matrixFromFSpyRows(rows) ==
    IF Len(rows) # MATRIX_SIZE \/ \E r \in DOMAIN rows : Len(rows[r]) # MATRIX_SIZE
    THEN [err |-> INVALID_CAMERA_TRANSFORM_ROWS_SIZE, matrix |-> NoMatrix]
    ELSE LET filled == TransposeLoop(rows,
                                     [k \in 0..(MATRIX_ELEMENT_COUNT - 1) |-> UndefinedElem], 0)
         IN  IF filled.err # None
             THEN [err |-> filled.err, matrix |-> NoMatrix]
             ELSE [err |-> None, matrix |-> FromArray(filled.arr)]

(***************************************************************************)
(* The camera.  Of three.js, what the converter relies on: the world       *)
(* position is the translation column of matrixWorld, and the world        *)
(* orientation of a rotation matrix with entries -1, 0, 1 decomposes in    *)
(* YXZ order by Euler.setFromRotationMatrix.                               *)
(***************************************************************************)
DEFAULT_NEAR == Div(1, 100)
DEFAULT_FAR == Div(2000, 1)

IdentityElements == <<1, 0, 0, 0,  0, 1, 0, 0,  0, 0, 1, 0,  0, 0, 0, 1>>

\* decompose into position, quaternion and scale, updateMatrix, updateMatrixWorld:
\* the matrix composed back has the bottom row 0 0 0 1.
Recompose(m) ==
    [k \in 1..MATRIX_ELEMENT_COUNT |->
        IF k \in {4, 8, 12} THEN 0 ELSE IF k = MATRIX_ELEMENT_COUNT THEN 1 ELSE m[k]]

getWorldPosition(cam) == <<cam.matrixWorld[13], cam.matrixWorld[14], cam.matrixWorld[15]>>

\* Math.asin on -1, 0, 1, keeping the sign of zero.
Asin(y) == [neg |-> y.neg, mag |-> y.mag * (PI \div 2), rad |-> TRUE]

\* Math.atan2(y, x) for y in -1, -0, 0, 1 and x in -1, 0, 1, one of them zero.
Atan2(y, x) ==
    CASE y.mag = 0 /\ x >= 0 -> [neg |-> y.neg, mag |-> 0, rad |-> TRUE]
      [] y.mag = 0 /\ x < 0  -> [neg |-> y.neg, mag |-> PI, rad |-> TRUE]
      [] y.mag = 1 /\ x = 0  -> [neg |-> y.neg, mag |-> PI \div 2, rad |-> TRUE]

\* new Euler().setFromQuaternion(camera.getWorldQuaternion(...), "YXZ")
EulerYXZ(cam) ==
    LET te == cam.matrixWorld
        m11 == te[1]   m13 == te[9]
        m21 == te[2]   m22 == te[6]   m23 == te[10]
        m31 == te[3]   m33 == te[11]
    IN  IF Abs(m23) < 1
        THEN [ x |-> Asin(NumNeg(IntNum(m23))),
               y |-> Atan2(IntNum(m13), m33),
               z |-> Atan2(IntNum(m21), m22) ]
        ELSE [ x |-> Asin(NumNeg(IntNum(m23))),
               y |-> Atan2(NumNeg(IntNum(m31)), m11),
               z |-> RadNum(0) ]

(***************************************************************************)
(* exportVmd.                                                              *)
(***************************************************************************)
\* Mutant: the distance not negated.
CameraFrameOf_PositiveDistance(cam, convOpts, options) ==
    LET targetPosition == Coalesce(options.target, <<0, 0, 0>>)
        target == [ x |-> targetPosition[AXIS_INDEX_X + 1],
                    y |-> targetPosition[AXIS_INDEX_Y + 1],
                    z |-> targetPosition[AXIS_INDEX_Z + 1] ]
        camPos == getWorldPosition(cam)
        distanceTo == Sqrt( (camPos[1] - target.x) * (camPos[1] - target.x)
                          + (camPos[2] - target.y) * (camPos[2] - target.y)
                          + (camPos[3] - target.z) * (camPos[3] - target.z) )
        distanceMultiplier == Coalesce(options.distanceMultiplier, 1)
        distance == NumMul(NumMul(IntNum(distanceTo), IntNum(distanceMultiplier)),
                           IntNum(convOpts.distanceBaseMultiplier))
        euler == EulerYXZ(cam)
    IN  [ frameTime    |-> Coalesce(options.frameTime, DEFAULT_FRAME_TIME),
          distance     |-> distance,
          position     |-> <<IntNum(target.x), IntNum(target.y), IntNum(target.z)>>,
          rotation     |-> <<euler.x, euler.y, NumNeg(euler.z)>>,
          curve        |-> createDefaultCameraCurve,
          viewAngle    |-> MathRound(cam.fov),
          orthographic |-> DEFAULT_ORTHOGRAPHIC ]

\* Mutant: the Z rotation passed through like X and Y.
CameraFrameOf_ZNotNegated(cam, convOpts, options) ==
    LET targetPosition == Coalesce(options.target, <<0, 0, 0>>)
        target == [ x |-> targetPosition[AXIS_INDEX_X + 1],
                    y |-> targetPosition[AXIS_INDEX_Y + 1],
                    z |-> targetPosition[AXIS_INDEX_Z + 1] ]
        camPos == getWorldPosition(cam)
        distanceTo == Sqrt( (camPos[1] - target.x) * (camPos[1] - target.x)
                          + (camPos[2] - target.y) * (camPos[2] - target.y)
                          + (camPos[3] - target.z) * (camPos[3] - target.z) )
        distanceMultiplier == Coalesce(options.distanceMultiplier, 1)
        distance == NumMul(NumMul(NumNeg(IntNum(distanceTo)), IntNum(distanceMultiplier)),
                           IntNum(convOpts.distanceBaseMultiplier))
        euler == EulerYXZ(cam)
    IN  [ frameTime    |-> Coalesce(options.frameTime, DEFAULT_FRAME_TIME),
          distance     |-> distance,
          position     |-> <<IntNum(target.x), IntNum(target.y), IntNum(target.z)>>,
          rotation     |-> <<euler.x, euler.y, euler.z>>,
          curve        |-> createDefaultCameraCurve,
          viewAngle    |-> MathRound(cam.fov),
          orthographic |-> DEFAULT_ORTHOGRAPHIC ]

\* The cameraFrame built from the camera and the options.
CameraFrameOf(cam, convOpts, options) ==
    LET targetPosition == Coalesce(options.target, <<0, 0, 0>>)
        target == [ x |-> targetPosition[AXIS_INDEX_X + 1],
                    y |-> targetPosition[AXIS_INDEX_Y + 1],
                    z |-> targetPosition[AXIS_INDEX_Z + 1] ]
        camPos == getWorldPosition(cam)
        distanceTo == Sqrt( (camPos[1] - target.x) * (camPos[1] - target.x)
                          + (camPos[2] - target.y) * (camPos[2] - target.y)
                          + (camPos[3] - target.z) * (camPos[3] - target.z) )
        distanceMultiplier == Coalesce(options.distanceMultiplier, 1)
        distance == NumMul(NumMul(NumNeg(IntNum(distanceTo)), IntNum(distanceMultiplier)),
                           IntNum(convOpts.distanceBaseMultiplier))
        euler == EulerYXZ(cam)
    IN  [ frameTime    |-> Coalesce(options.frameTime, DEFAULT_FRAME_TIME),
          distance     |-> distance,
          position     |-> <<IntNum(target.x), IntNum(target.y), IntNum(target.z)>>,
          rotation     |-> <<euler.x, euler.y, NumNeg(euler.z)>>,
          curve        |-> createDefaultCameraCurve,
          viewAngle    |-> MathRound(cam.fov),
          orthographic |-> DEFAULT_ORTHOGRAPHIC ]

NoBuffer == <<>>

\* Mutant: the check for a missing calibration left out.
exportVmd_NoCheck(held, cam, convOpts, options) ==
    [err |-> None,
     buffer |-> writeCameraVmd(<<CameraFrameOf(cam, convOpts, options)>>).buf]

\* [err, buffer]: the error thrown, or the ArrayBuffer returned.
exportVmd(held, cam, convOpts, options) ==
    IF held = NullRef
    THEN [err |-> FSPY_DATA_NOT_SET, buffer |-> NoBuffer]
    ELSE [err |-> None,
          buffer |-> writeCameraVmd(<<CameraFrameOf(cam, convOpts, options)>>).buf]

(***************************************************************************)
(* Inputs.                                                                 *)
(***************************************************************************)
Rows(m) == [r \in DOMAIN m |-> [c \in DOMAIN m[r] |-> Number(m[r][c])]]

\* Camera at (0, 0, 10), not rotated.
RowsBack10 == Rows(<< <<1, 0, 0, 0>>, <<0, 1, 0, 0>>, <<0, 0, 1, 10>>, <<0, 0, 0, 1>> >>)
\* Camera at (0, 8, 0), turned a quarter turn about Y.
RowsUp8TurnY == Rows(<< <<0, 0, 1, 0>>, <<0, 1, 0, 8>>, <<-1, 0, 0, 0>>, <<0, 0, 0, 1>> >>)
RowsIdentity == Rows(<< <<1, 0, 0, 0>>, <<0, 1, 0, 0>>, <<0, 0, 1, 0>>, <<0, 0, 0, 1>> >>)
\* Malformed transforms.
RowsThreeRows == Rows(<< <<1, 0, 0, 0>>, <<0, 1, 0, 0>>, <<0, 0, 1, 10>> >>)
RowsFiveRows == RowsBack10 \o Rows(<< <<0, 0, 0, 0>> >>)
RowsShortRow == [RowsBack10 EXCEPT ![2] = <<Number(0), UndefinedElem, Number(0)>>]
RowsHole == [RowsBack10 EXCEPT ![2][2] = UndefinedElem]

FspyValue(vfov, width, height, ct, vt) ==
    [ verticalFieldOfView |-> vfov, imageWidth |-> width, imageHeight |-> height,
      cameraTransform |-> ct, viewTransform |-> vt ]

\* The calibration records the caller builds.  Angles in units of pi / PI.
CallerRecords ==
    { FspyValue(PI \div 2, 1920, 1080, RowsBack10, RowsIdentity),
      FspyValue(5, 4, 3, RowsUp8TurnY, RowsThreeRows),
      FspyValue(5, 4, 3, RowsThreeRows, RowsIdentity),
      FspyValue(5, 4, 3, RowsFiveRows, RowsIdentity),
      FspyValue(5, 4, 3, RowsShortRow, RowsIdentity),
      FspyValue(5, 4, 3, RowsHole, RowsIdentity) }

ApplyOptionSet ==
    { [near |-> Undefined, far |-> Undefined],
      [near |-> Some(Div(1, 1)), far |-> Some(Div(100, 1))] }

ExportOptionSet ==
    { [distanceMultiplier |-> Undefined, target |-> Undefined, frameTime |-> Undefined],
      [distanceMultiplier |-> Some(-2), target |-> Some(<<0, 0, 6>>),
       frameTime |-> Some(258)] }

ConstructorOptionSet == {Undefined, Some(-3)}

\* Where the caller puts the camera, and the field of view it gives it.
CameraSettings == { [position |-> <<0, 8, 0>>, fov |-> Div(75, 2)] }

(***************************************************************************)
(* The converter and its caller.                                           *)
(***************************************************************************)
Result(op, err, arg, out) == [op |-> op, err |-> err, arg |-> arg, out |-> out]

\* new PerspectiveCamera(75, 16 / 9, 0.1, 2000); new FspyVmdConverter(camera, options)
Constructed(options) ==
    /\ camera = [ fov |-> Div(75, 1), aspect |-> Div(16, 9),
                  near |-> Div(1, 10), far |-> Div(2000, 1),
                  matrixWorld |-> IdentityElements, matrixAutoUpdate |-> TRUE ]
    /\ fspyData = NullRef
    /\ converterOptions =
          [distanceBaseMultiplier |-> Coalesce(options, DISTANCE_BASE_MULTIPLIER)]
    /\ heap = [a \in Addr |-> Free]
    /\ callerRef = NullRef
    /\ applyCalled = FALSE

Init ==
    \E options \in ConstructorOptionSet :
        /\ Constructed(options)
        /\ lastResult = Result("constructor", None, options, Undefined)

\* The caller builds a calibration record, dropping the object it held.
CallerNewRecord(v) ==
    /\ \E n \in {NewFspy(heap, v)} :
       \E g \in {Collect(n.heap, n.ref, fspyData)} :
           /\ heap' = g.heap
           /\ callerRef' = g.root1
           /\ fspyData' = g.root2
    /\ lastResult' = Result("callerNewRecord", None, Undefined, Undefined)
    /\ UNCHANGED <<camera, converterOptions, applyCalled>>

\* The caller writes into the FspyData object it holds: a field, and an
\* element of a nested row.
CallerMutates ==
    /\ callerRef # NullRef
    /\ heap' = [heap EXCEPT ![callerRef].verticalFieldOfView = PI \div 4,
                            ![heap[callerRef].cameraTransform].rows[3][4] = Number(0)]
    /\ lastResult' = Result("callerMutates", None, Undefined, Undefined)
    /\ UNCHANGED <<camera, fspyData, converterOptions, callerRef, applyCalled>>

\* The caller moves the camera it owns.
CallerSetsCamera(c) ==
    /\ camera' = [camera EXCEPT !.fov = c.fov,
                                !.matrixWorld[13] = c.position[1],
                                !.matrixWorld[14] = c.position[2],
                                !.matrixWorld[15] = c.position[3]]
    /\ lastResult' = Result("callerSetsCamera", None, c, Undefined)
    /\ UNCHANGED <<fspyData, converterOptions, heap, callerRef, applyCalled>>

\* Mutant: near and far left as an earlier call set them when no override is given.
applyFSpyToCamera_KeepsClipPlanes(h, cam, fspy, opts) ==
    LET copy == cloneFspyData(h, fspy)
        cam1 == [cam EXCEPT !.fov = radToDeg(h[fspy].verticalFieldOfView),
                            !.aspect = Div(h[fspy].imageWidth, h[fspy].imageHeight),
                            !.near = Coalesce(opts.near, cam.near),
                            !.far = Coalesce(opts.far, cam.far)]
        camWorld == matrixFromFSpyRows(h[h[fspy].cameraTransform].rows)
    IN  IF camWorld.err # None
        THEN [ err |-> camWorld.err, heap |-> copy.heap, fspyData |-> copy.ref,
               camera |-> cam1, matrix |-> NoMatrix ]
        ELSE [ err |-> None, heap |-> copy.heap, fspyData |-> copy.ref,
               camera |-> [cam1 EXCEPT !.matrixAutoUpdate = FALSE,
                                       !.matrixWorld = Recompose(camWorld.matrix)],
               matrix |-> camWorld.matrix ]

\* applyFSpyToCamera(fspy, opts) with the caller's object: [err, heap, fspyData, camera, matrix].
applyFSpyToCamera(h, cam, fspy, opts) ==
    LET copy == cloneFspyData(h, fspy)
        cam1 == [cam EXCEPT !.fov = radToDeg(h[fspy].verticalFieldOfView),
                            !.aspect = Div(h[fspy].imageWidth, h[fspy].imageHeight),
                            !.near = Coalesce(opts.near, DEFAULT_NEAR),
                            !.far = Coalesce(opts.far, DEFAULT_FAR)]
        camWorld == matrixFromFSpyRows(h[h[fspy].cameraTransform].rows)
    IN  IF camWorld.err # None
        THEN [ err |-> camWorld.err, heap |-> copy.heap, fspyData |-> copy.ref,
               camera |-> cam1, matrix |-> NoMatrix ]
        ELSE [ err |-> None, heap |-> copy.heap, fspyData |-> copy.ref,
               camera |-> [cam1 EXCEPT !.matrixAutoUpdate = FALSE,
                                       !.matrixWorld = Recompose(camWorld.matrix)],
               matrix |-> camWorld.matrix ]

\* The result also keeps, of the camera as the call found it, the field of view,
\* the near plane and the auto-update flag (FALSE once an earlier call has succeeded).
ApplyFSpyToCamera(opts) ==
    /\ callerRef # NullRef
    /\ \E r \in {applyFSpyToCamera(heap, camera, callerRef, opts)} :
       \E g \in {Collect(r.heap, callerRef, r.fspyData)} :
           /\ heap' = g.heap
           /\ callerRef' = g.root1
           /\ fspyData' = g.root2
           /\ camera' = r.camera
           /\ lastResult' = [ op |-> "applyFSpyToCamera", err |-> r.err,
                               arg |-> opts, out |-> r.matrix,
                               before |-> [ fov |-> camera.fov, near |-> camera.near,
                                            matrixAutoUpdate |-> camera.matrixAutoUpdate ] ]
    /\ applyCalled' = TRUE
    /\ UNCHANGED converterOptions

\* getFspyData(): [heap, ref], ref the object returned (NullRef: null).
getFspyData(h, held) ==
    IF held = NullRef THEN [heap |-> h, ref |-> NullRef]
    ELSE cloneFspyData(h, held)

\* The caller keeps the object returned in place of the one it held.
GetFspyData ==
    /\ \E r \in {getFspyData(heap, fspyData)} :
       \E g \in {Collect(r.heap, IF r.ref = NullRef THEN callerRef ELSE r.ref, fspyData)} :
           /\ heap' = g.heap
           /\ callerRef' = g.root1
           /\ fspyData' = g.root2
           /\ lastResult' = Result("getFspyData", None, Undefined,
                                   Deref(r.heap, r.ref))
    /\ UNCHANGED <<camera, converterOptions, applyCalled>>

\* Mutant: an export that uses the calibration up.
ExportVmd_OneShot(options) ==
    /\ \E r \in {exportVmd(fspyData, camera, converterOptions, options)} :
           lastResult' = Result("exportVmd", r.err, options, r.buffer)
    /\ fspyData' = NullRef
    /\ UNCHANGED <<camera, converterOptions, heap, callerRef, applyCalled>>

ExportVmd(options) ==
    /\ \E r \in {exportVmd(fspyData, camera, converterOptions, options)} :
           lastResult' = Result("exportVmd", r.err, options, r.buffer)
    /\ UNCHANGED <<camera, fspyData, converterOptions, heap, callerRef, applyCalled>>

\* The frames a caller hands to writeCameraVmd directly.
FrameSet ==
    { [ frameTime    |-> ft,
        distance     |-> b.distance,
        position     |-> b.position,
        rotation     |-> b.rotation,
        curve        |-> cv,
        viewAngle    |-> t.viewAngle,
        orthographic |-> t.orthographic ] :
      ft \in {DEFAULT_FRAME_TIME, 258},
      b \in { [ distance |-> IntNum(-50),
                position |-> <<IntNum(0), IntNum(0), IntNum(0)>>,
                rotation |-> <<RadNum(0), RadNum(0), NumNeg(RadNum(0))>> ],
              [ distance |-> IntNum(3),
                position |-> <<IntNum(1), IntNum(-2), IntNum(6)>>,
                rotation |-> <<RadNum(PI \div 2), RadNum(-PI), RadNum(0)>> ] },
      cv \in { createDefaultCameraCurve, [i \in 1..24 |-> 10 * i] },
      t \in { [viewAngle |-> 45, orthographic |-> DEFAULT_ORTHOGRAPHIC],
              [viewAngle |-> 300, orthographic |-> 1] } }

FrameSeqs == UNION { [1..n -> FrameSet] : n \in 0..MaxFrames }

\* writeCameraVmd(cameraFrames), called directly with the frames the caller
\* has prepared; out is the final writer state.
WriteCameraVmd ==
    /\ lastResult.op = "callerFrames"
    /\ \E w \in {writeCameraVmd(lastResult.arg)} :
           lastResult' = Result("writeCameraVmd", w.err, lastResult.arg, w)
    /\ UNCHANGED <<camera, fspyData, converterOptions, heap, callerRef, applyCalled>>

Next ==
    \/ \E v \in CallerRecords : CallerNewRecord(v)
    \/ CallerMutates
    \/ \E c \in CameraSettings : CallerSetsCamera(c)
    \/ \E opts \in ApplyOptionSet : ApplyFSpyToCamera(opts)
    \/ GetFspyData
    \/ \E options \in ExportOptionSet : ExportVmd(options)

Spec == Init /\ [][Next]_vars

\* The binary writer alone, over the frame sequences.
InitEncode ==
    \E cameraFrames \in FrameSeqs :
        /\ Constructed(Undefined)
        /\ lastResult = Result("callerFrames", None, cameraFrames, Undefined)

NextEncode == WriteCameraVmd

SpecEncode == InitEncode /\ [][NextEncode]_vars

(***************************************************************************)
(* Properties of the binary writer, checked under SpecEncode.              *)
(***************************************************************************)
Written == lastResult.op = "writeCameraVmd"

\* The little-endian uint32 at a 0-based byte offset of a buffer.
ReadUint32(buf, offset) ==
    buf[offset + 1] + 256 * buf[offset + 2] + 65536 * buf[offset + 3]
        + 16777216 * buf[offset + 4]

Bytes(buf, offset, length) == SubSeq(buf, offset + 1, offset + length)

Zeros(n) == [i \in 1..n |-> 0]

\* C3: encoding N frames gives exactly 30 + 20 + 24 + 61 * N bytes, the first 30
\* of which are "Vocaloid Motion Data 0002" padded with zeros, and the
\* camera-frame count field read as a little-endian uint32 is N.
C3_SizeSignatureCount ==
    Written =>
        LET n == Len(lastResult.arg)
            buf == lastResult.out.buf
        IN  /\ lastResult.err = None
            /\ Len(buf) = 30 + 20 + 24 + 61 * n
            /\ Bytes(buf, 0, 30) = VMD_SIGNATURE \o Zeros(5)
            /\ ReadUint32(buf, 58) = n

C3_Witness == Written /\ Len(lastResult.arg) = 2

IsDefaultFrame(frame) ==
    /\ frame.frameTime = 0
    /\ frame.curve = createDefaultCameraCurve
    /\ frame.orthographic = DEFAULT_ORTHOGRAPHIC

\* C4, as claimed: a single default frame with frameTime = 0 encodes to 135 bytes
\* and the byte at offset 54 is the camera-frame count, 1.
C4_CountAtOffset54 ==
    (Written /\ Len(lastResult.arg) = 1 /\ IsDefaultFrame(lastResult.arg[1])) =>
        /\ Len(lastResult.out.buf) = 135
        /\ lastResult.out.buf[54 + 1] = 1

\* C4, amended: a single default frame with frameTime = 0 encodes to 135 bytes;
\* the camera-frame count is the uint32 at offset 58, whose first byte is 1, and
\* the byte at offset 54 belongs to the morph-frame count and is 0.
C4_CountAtOffset58 ==
    (Written /\ Len(lastResult.arg) = 1 /\ IsDefaultFrame(lastResult.arg[1])) =>
        /\ Len(lastResult.out.buf) = 135
        /\ lastResult.out.buf[58 + 1] = 1
        /\ ReadUint32(lastResult.out.buf, 58) = 1
        /\ lastResult.out.buf[54 + 1] = 0

C4_Witness ==
    Written /\ Len(lastResult.arg) = 1 /\ IsDefaultFrame(lastResult.arg[1])
            /\ lastResult.arg[1].distance = IntNum(-50)

\* The 61 bytes of frame number k (0-based) lie at base = 62 + 61 * k.
FrameLaidOut(buf, frame, base) ==
    /\ Bytes(buf, base + 0, 4) = Uint32LE(frame.frameTime)
    /\ Bytes(buf, base + 4, 4) = Float32LE(frame.distance)
    /\ Bytes(buf, base + 8, 4) = Float32LE(frame.position[1])
    /\ Bytes(buf, base + 12, 4) = Float32LE(frame.position[2])
    /\ Bytes(buf, base + 16, 4) = Float32LE(frame.position[3])
    /\ Bytes(buf, base + 20, 4) = Float32LE(frame.rotation[1])
    /\ Bytes(buf, base + 24, 4) = Float32LE(frame.rotation[2])
    /\ Bytes(buf, base + 28, 4) = Float32LE(frame.rotation[3])
    /\ \A i \in 1..24 : buf[base + 32 + i] = frame.curve[i]
    /\ Bytes(buf, base + 56, 4) = Uint32LE(frame.viewAngle)
    /\ buf[base + 60 + 1] = frame.orthographic

\* How many of the writes made covered byte i (1-based).
TimesWritten(w, i) ==
    Cardinality({k \in DOMAIN w.written : w.written[k][1] <= i /\ i <= w.written[k][2]})

\* C5: the buffer follows the cumulative layout: signature at 0..29, model name
\* at 30..49 (12 fixed bytes, 8 zeros), bone count 0 at 50, morph count 0 at 54,
\* camera count at 58, frame k at 62 + 61 * k with its fields at relative
\* offsets 0, 4, 8/12/16, 20/24/28, 32..55, 56, 60, then twelve zero bytes
\* (light, shadow, IK counts); every byte is written exactly once and the
\* write offset ends at the buffer length.
C5_Layout ==
    Written =>
        LET frames == lastResult.arg
            n == Len(frames)
            buf == lastResult.out.buf
        IN  /\ lastResult.err = None
            /\ Bytes(buf, 0, 30) = VMD_SIGNATURE \o Zeros(5)
            /\ Bytes(buf, 30, 20) = CAMERA_MODEL_NAME_SJIS \o Zeros(8)
            /\ ReadUint32(buf, 50) = 0
            /\ ReadUint32(buf, 54) = 0
            /\ ReadUint32(buf, 58) = n
            /\ \A k \in 0..(n - 1) : FrameLaidOut(buf, frames[k + 1], 62 + 61 * k)
            /\ Bytes(buf, 62 + 61 * n, 12) = Zeros(12)
            /\ Len(buf) = 62 + 61 * n + 12
            /\ \A i \in 1..Len(buf) : TimesWritten(lastResult.out, i) = 1
            /\ lastResult.out.offset = Len(buf)

C5_Witness ==
    /\ Written
    /\ Len(lastResult.arg) = 2
    /\ lastResult.arg[1] # lastResult.arg[2]
    /\ lastResult.arg[2].frameTime = 258

(***************************************************************************)
(* Properties of the converter, checked under Spec.                        *)
(***************************************************************************)
Applied == lastResult.op = "applyFSpyToCamera"
Exported == lastResult.op = "exportVmd"

\* What getFspyData returns: the held record as a value, or null.
Held == Deref(heap, fspyData)

\* C1, as claimed: a failed applyFSpyToCamera leaves the camera (fov, aspect,
\* near, far, world matrix, matrixAutoUpdate) and the held calibration record
\* as they were before the call.
C1_FailedApplyChangesNothing ==
    [][ (lastResult'.op = "applyFSpyToCamera" /\ lastResult'.err # None)
            => (camera' = camera /\ Held' = Held) ]_vars

\* C2: as long as applyFSpyToCamera has never been called, exportVmd fails with
\* FSPY_DATA_NOT_SET and returns no buffer, whatever the camera and the options.
C2_ExportBeforeApplyFails ==
    (Exported /\ ~applyCalled) =>
        (lastResult.err = FSPY_DATA_NOT_SET /\ lastResult.out = NoBuffer)

C2_Witness ==
    /\ Exported
    /\ ~applyCalled
    /\ lastResult.err = FSPY_DATA_NOT_SET
    /\ lastResult.arg.distanceMultiplier # Undefined
    /\ camera.fov = Div(75, 2)
    /\ callerRef # NullRef

\* C6: an export changes neither the held calibration, nor the converter
\* options, nor the camera, so that the same export made again returns the same
\* bytes: after any export, exporting with the same options in the state it
\* left gives its very result, and an export that directly follows a successful
\* one with the same options returns the same buffer.
C6_ExportRepeatable ==
    [][ lastResult'.op = "exportVmd" =>
          /\ fspyData' = fspyData
          /\ heap' = heap
          /\ converterOptions' = converterOptions
          /\ camera' = camera
          /\ exportVmd(fspyData', camera', converterOptions', lastResult'.arg)
                = [err |-> lastResult'.err, buffer |-> lastResult'.out]
          /\ (lastResult.op = "exportVmd" /\ lastResult.err = None
                /\ lastResult'.arg = lastResult.arg)
                => (lastResult'.err = None /\ lastResult'.out = lastResult.out) ]_vars

C6_Witness ==
    /\ Exported
    /\ lastResult.err = None
    /\ lastResult.arg.target # Undefined
    /\ camera.matrixWorld[14] = 8

Is4x4(rows) == Len(rows) = 4 /\ \A r \in 1..Len(rows) : Len(rows[r]) = 4

HasUndefined(rows) == \E r \in 1..4 : \E c \in 1..4 : rows[r][c].t = "undefined"

\* The record the call was given: the caller's object, which the call leaves alone.
Passed == Deref(heap, callerRef)

\* C7: a camera transform that is not 4 rows of 4 columns fails with
\* INVALID_CAMERA_TRANSFORM_ROWS_SIZE, whatever its elements; one that is 4 by 4
\* with an undefined element fails with INVALID_CAMERA_TRANSFORM_VALUE; in both
\* cases no matrix has been constructed.
C7_TransformClassified ==
    Applied =>
        /\ ~Is4x4(Passed.cameraTransform)
              => lastResult.err = INVALID_CAMERA_TRANSFORM_ROWS_SIZE
        /\ (Is4x4(Passed.cameraTransform) /\ HasUndefined(Passed.cameraTransform))
              => lastResult.err = INVALID_CAMERA_TRANSFORM_VALUE
        /\ lastResult.err # None => lastResult.out = NoMatrix

\* The shape error wins over the value error: a row of 3 with an undefined element.
C7_Witness ==
    /\ Applied
    /\ Passed.cameraTransform = RowsShortRow
    /\ lastResult.err = INVALID_CAMERA_TRANSFORM_ROWS_SIZE

C7_ValueCaseReached ==
    /\ Applied
    /\ Passed.cameraTransform = RowsHole
    /\ lastResult.err = INVALID_CAMERA_TRANSFORM_VALUE

\* C8, as claimed: applyFSpyToCamera never succeeds on a record in which the
\* camera transform or the view transform is not 4 by 4.
C8_BothTransformsValidated ==
    (Applied /\ lastResult.err = None) =>
        (Is4x4(Passed.cameraTransform) /\ Is4x4(Passed.viewTransform))

\* C8, amended: applyFSpyToCamera never succeeds on a record whose camera
\* transform is not 4 by 4; the view transform is not validated.
C8_CameraTransformValidated ==
    (Applied /\ lastResult.err = None) => Is4x4(Passed.cameraTransform)

C8_Witness ==
    /\ Applied
    /\ lastResult.err = None
    /\ Is4x4(Passed.cameraTransform)
    /\ ~Is4x4(Passed.viewTransform)

\* C9: writing into the caller's record after applyFSpyToCamera, or into an
\* object getFspyData returned, nested rows included, changes neither what
\* getFspyData returns nor what exportVmd produces.
C9_ValueSemantics ==
    [][ lastResult'.op = "callerMutates" =>
          /\ Held' = Held
          /\ \A o \in ExportOptionSet :
                exportVmd(fspyData', camera', converterOptions', o)
                    = exportVmd(fspyData, camera, converterOptions, o) ]_vars

C9_Witness ==
    /\ lastResult.op = "callerMutates"
    /\ fspyData # NullRef
    /\ Passed.verticalFieldOfView # Held.verticalFieldOfView
    /\ Passed.cameraTransform # Held.cameraTransform
    /\ Held.cameraTransform = RowsBack10

\* The float32 at a 0-based offset of a buffer, for whole values: [neg, mag].
ReadFloat32(buf, offset) ==
    LET b1 == buf[offset + 1]   b2 == buf[offset + 2]
        b3 == buf[offset + 3]   b4 == buf[offset + 4]
        e == (b4 % 128) * 2 + (b3 \div 128)
        f == (b3 % 128) * 65536 + b2 * 256 + b1
    IN  [ neg |-> b4 >= 128,
          mag |-> IF e = 0 THEN 0 ELSE (8388608 + f) \div Pow2(23 - (e - 127)) ]

\* C10: the distance field of the exported frame is minus (the distance from the
\* camera's world position to the target, times distanceMultiplier, times
\* distanceBaseMultiplier), the target defaulting to the origin, the multipliers
\* to 1 and to 5; a camera at (0, 0, 10) with default options gives -50; with both
\* multipliers non-negative the field is never positive.
C10_Distance ==
    /\ (lastResult.op = "constructor" /\ lastResult.arg = Undefined)
          => converterOptions.distanceBaseMultiplier = 5
    /\ (Exported /\ lastResult.err = None) =>
          LET o == lastResult.arg
              t == IF o.target = Undefined THEN <<0, 0, 0>> ELSE o.target[1]
              dm == IF o.distanceMultiplier = Undefined THEN 1 ELSE o.distanceMultiplier[1]
              dbm == converterOptions.distanceBaseMultiplier
              p == <<camera.matrixWorld[13], camera.matrixWorld[14], camera.matrixWorld[15]>>
              d2 == (p[1] - t[1]) * (p[1] - t[1]) + (p[2] - t[2]) * (p[2] - t[2])
                      + (p[3] - t[3]) * (p[3] - t[3])
              field == ReadFloat32(lastResult.out, 62 + 4)
          IN  /\ field.mag * field.mag = d2 * dm * dm * dbm * dbm
              /\ field.mag # 0 => (field.neg <=> dm * dbm > 0)
              /\ (dm >= 0 /\ dbm >= 0) => (field.neg \/ field.mag = 0)
              /\ (p = <<0, 0, 10>> /\ o.target = Undefined
                     /\ o.distanceMultiplier = Undefined /\ dbm = 5)
                   => (field = [neg |-> TRUE, mag |-> 50]
                       /\ Bytes(lastResult.out, 66, 4) = <<0, 0, 72, 194>>)

C10_Witness ==
    /\ Exported
    /\ lastResult.err = None
    /\ lastResult.arg.target = Undefined
    /\ lastResult.arg.distanceMultiplier = Undefined
    /\ converterOptions.distanceBaseMultiplier = 5
    /\ camera.matrixWorld[15] = 10
    /\ ReadFloat32(lastResult.out, 66) = [neg |-> TRUE, mag |-> 50]

(***************************************************************************)
(* matrixFromFSpyRows alone, over a family of transforms, and applied a    *)
(* second time to its own result read as rows.                             *)
(***************************************************************************)
\* A transform whose 16 elements all differ.
RowsDistinct ==
    Rows(<< <<1, 2, 3, 4>>, <<5, 6, 7, 8>>, <<9, 10, 11, 12>>, <<13, 14, 15, 16>> >>)

\* The elements put in place of one element of a transform.
ElementSet == {Number(-7), Number(0), Number(100), UndefinedElem}

\* Each base transform with one of its elements replaced.
TransformSet ==
    { [base EXCEPT ![r][c] = e] :
        base \in {RowsDistinct, RowsIdentity, RowsUp8TurnY},
        r \in 1..MATRIX_SIZE, c \in 1..MATRIX_SIZE, e \in ElementSet }

\* matrix.elements read back as rows of MATRIX_SIZE numbers.
ElementsAsRows(elements) ==
    [r \in 1..MATRIX_SIZE |->
        [c \in 1..MATRIX_SIZE |-> Number(elements[(r - 1) * MATRIX_SIZE + c])]]

MatrixFromFSpyRows ==
    /\ lastResult.op = "callerRows"
    /\ \E m \in {matrixFromFSpyRows(lastResult.arg)} :
           lastResult' = Result("matrixFromFSpyRows", m.err, lastResult.arg, m.matrix)
    /\ UNCHANGED <<camera, fspyData, converterOptions, heap, callerRef, applyCalled>>

\* The conversion applied to the result of the first one; arg stays the
\* transform the first conversion was given.
MatrixFromFSpyRowsAgain ==
    /\ lastResult.op = "matrixFromFSpyRows"
    /\ lastResult.err = None
    /\ \E m \in {matrixFromFSpyRows(ElementsAsRows(lastResult.out))} :
           lastResult' = Result("matrixFromFSpyRowsAgain", m.err, lastResult.arg, m.matrix)
    /\ UNCHANGED <<camera, fspyData, converterOptions, heap, callerRef, applyCalled>>

InitTranspose ==
    \E rows \in TransformSet :
        /\ Constructed(Undefined)
        /\ lastResult = Result("callerRows", None, rows, Undefined)

NextTranspose == MatrixFromFSpyRows \/ MatrixFromFSpyRowsAgain

SpecTranspose == InitTranspose /\ [][NextTranspose]_vars

\* C11: for a valid 4 by 4 transform src the 16 elements dst of the matrix
\* satisfy dst[c*4 + r] = src[r][c] for r, c in 0..3, every slot of dst being
\* the destination of exactly one (r, c); and converting dst, read as rows,
\* once more gives src back element for element.
C11_Transpose ==
    /\ (lastResult.op = "matrixFromFSpyRows" /\ lastResult.err = None) =>
          /\ Len(lastResult.out) = MATRIX_ELEMENT_COUNT
          /\ \A r \in 0..3 : \A c \in 0..3 :
                lastResult.out[c * 4 + r + 1] = lastResult.arg[r + 1][c + 1].v
          /\ \A k \in 0..15 :
                Cardinality({rc \in (0..3) \X (0..3) : SlotOf(rc[1], rc[2]) = k}) = 1
    /\ lastResult.op = "matrixFromFSpyRowsAgain" =>
          /\ lastResult.err = None
          /\ ElementsAsRows(lastResult.out) = lastResult.arg

C11_Witness ==
    /\ lastResult.op = "matrixFromFSpyRowsAgain"
    /\ lastResult.err = None
    /\ lastResult.arg = [RowsDistinct EXCEPT ![2][3] = Number(100)]
    /\ lastResult.out[7] = 100

(***************************************************************************)
(* Successive calibrations, checked under Spec.                            *)
(***************************************************************************)
\* The world matrix that applyFSpyToCamera derives from a transform.
WorldMatrixOf(rows) ==
    Recompose([k \in 1..MATRIX_ELEMENT_COUNT |->
                  rows[((k - 1) % MATRIX_SIZE) + 1][((k - 1) \div MATRIX_SIZE) + 1].v])

\* C12: after a successful applyFSpyToCamera, whatever calls came before, the
\* converter holds one record, equal to the record just passed, and the
\* camera's fov, aspect, near, far and world matrix are those of that record
\* and of that call's options, near and far being 0.01 and 2000 where the call
\* gave none.
C12_LastCalibrationWins ==
    (Applied /\ lastResult.err = None) =>
        /\ fspyData # NullRef
        /\ Held = Passed
        /\ camera.fov = Div(Passed.verticalFieldOfView * 180, PI)
        /\ camera.aspect = Div(Passed.imageWidth, Passed.imageHeight)
        /\ camera.near = (IF lastResult.arg.near = Undefined
                            THEN Div(1, 100) ELSE lastResult.arg.near[1])
        /\ camera.far = (IF lastResult.arg.far = Undefined
                           THEN Div(2000, 1) ELSE lastResult.arg.far[1])
        /\ camera.matrixWorld = WorldMatrixOf(Passed.cameraTransform)

\* A call without overrides that succeeds on a camera which an earlier
\* successful call, of another record and with an override of near, has set up.
C12_Witness ==
    /\ Applied
    /\ lastResult.err = None
    /\ lastResult.before.matrixAutoUpdate = FALSE
    /\ lastResult.before.near = Div(1, 1)
    /\ lastResult.before.fov = Div(90, 1)
    /\ camera.fov = Div(75, 2)
    /\ lastResult.arg.near = Undefined
    /\ camera.near = Div(1, 100)
    /\ Passed.cameraTransform = RowsUp8TurnY

(***************************************************************************)
(* Export of a camera in each of the orientations that map the axes onto   *)
(* the axes.                                                               *)
(***************************************************************************)
\* The 3 by 3 rotation matrices with elements -1, 0, 1: orthogonal, determinant 1.
Rotations ==
    { m \in [1..3 -> [1..3 -> {-1, 0, 1}]] :
        /\ \A i \in 1..3 : \A j \in 1..3 :
              m[i][1] * m[j][1] + m[i][2] * m[j][2] + m[i][3] * m[j][3]
                  = (IF i = j THEN 1 ELSE 0)
        /\ m[1][1] * (m[2][2] * m[3][3] - m[2][3] * m[3][2])
             - m[1][2] * (m[2][1] * m[3][3] - m[2][3] * m[3][1])
             + m[1][3] * (m[2][1] * m[3][2] - m[2][2] * m[3][1]) = 1 }

\* Rows of the camera transform with rotation m, the camera at (0, 0, 10).
RowsRotated(m) ==
    Rows(<< <<m[1][1], m[1][2], m[1][3], 0>>,
            <<m[2][1], m[2][2], m[2][3], 0>>,
            <<m[3][1], m[3][2], m[3][3], 10>>,
            <<0, 0, 0, 1>> >>)

RotatedRecords == { FspyValue(5, 4, 3, RowsRotated(m), RowsIdentity) : m \in Rotations }

NextRotate ==
    \/ \E v \in RotatedRecords : CallerNewRecord(v)
    \/ ApplyFSpyToCamera([near |-> Undefined, far |-> Undefined])
    \/ \E options \in ExportOptionSet : ExportVmd(options)

SpecRotate == Init /\ [][NextRotate]_vars

\* C13: the rotation of the exported frame is the camera's world orientation
\* decomposed in YXZ order with the Z component alone negated, (euler.x,
\* euler.y, -euler.z), and the position of the frame is the target, each
\* component with its sign.
C13_RotationZNegated ==
    (Exported /\ lastResult.err = None) =>
        LET euler == EulerYXZ(camera)
            t == IF lastResult.arg.target = Undefined
                   THEN <<0, 0, 0>> ELSE lastResult.arg.target[1]
            buf == lastResult.out
        IN  /\ Bytes(buf, 62 + 8, 4) = Float32LE(IntNum(t[1]))
            /\ Bytes(buf, 62 + 12, 4) = Float32LE(IntNum(t[2]))
            /\ Bytes(buf, 62 + 16, 4) = Float32LE(IntNum(t[3]))
            /\ Bytes(buf, 62 + 20, 4) = Float32LE(euler.x)
            /\ Bytes(buf, 62 + 24, 4) = Float32LE(euler.y)
            /\ Bytes(buf, 62 + 28, 4) = Float32LE([euler.z EXCEPT !.neg = ~euler.z.neg])

\* A camera turned a quarter turn about Z: euler.z = pi/2, written as -pi/2
\* (0xBFC90FDB); the target (0, 0, 6) written as it is (6 = 0x40C00000).
C13_Witness ==
    /\ Exported
    /\ lastResult.err = None
    /\ camera.matrixWorld[2] = 1
    /\ camera.matrixWorld[11] = 1
    /\ EulerYXZ(camera).z = [neg |-> FALSE, mag |-> PI \div 2, rad |-> TRUE]
    /\ lastResult.arg.target = Some(<<0, 0, 6>>)
    /\ Bytes(lastResult.out, 62 + 28, 4) = <<219, 15, 201, 191>>
    /\ Bytes(lastResult.out, 62 + 16, 4) = <<0, 0, 192, 64>>

====
